---- MODULE Spec2Model ----
(***************************************************************************)
(* Model of streamlit_app.py: the crime-analysis dashboard's pipeline.     *)
(*                                                                         *)
(*   load_data   reads the CSV of the data archive and cleans it           *)
(*   train_model builds the training subset, collapses rare categories,    *)
(*               fits the encoders, the scaler and the classifier          *)
(*   main        shows the tabs, runs the six-period simulation loop,      *)
(*               aggregates the predictions and offers the CSV download    *)
(*                                                                         *)
(* Text (column names, cell contents) is a sequence of one-character       *)
(* strings, so that strip / lower / replace / parsing / sorting are        *)
(* computed character by character.  A table cell is a record              *)
(*   [t |-> "nan" | "str" | "num", s |-> text, v |-> integer].             *)
(* A DataFrame is [columns |-> sequence of names, rows |-> sequence of     *)
(* row groups]; a row group [cells |-> one cell per column, n |-> count]   *)
(* stands for n consecutive records that agree on every column except      *)
(* crime_id and carry pairwise different identifiers (run-length           *)
(* encoding; n = 1 is a single record).                                    *)
(***************************************************************************)
EXTENDS Integers, Sequences, FiniteSets

VARIABLES
  archive,          \* data/humberside-street-merged.zip: "missing", "no_csv", "ok"
  raw,              \* the table pd.read_csv returns for the archive's first CSV
  df,               \* main's df: the cleaned collection load_data returns
  pc,               \* position of the script run
  error,            \* what ended the run early ("" while it has not ended early)
  shown,            \* the outputs the run has put on the page so far
  df_model,         \* the training subset with collapsed crime_type
  label_encoders,   \* per categorical feature: the fitted classes_
  scaler,           \* StandardScaler: fitted sample count, sums and sums of squares
  le_target,        \* classes_ of the target encoder
  rf,               \* the fitted classifier
  m,                \* loop variable of the period loop
  future_list,      \* the batches appended so far
  report,           \* fut_df and the aggregates computed from it
  random_lons,      \* the longitudes drawn in the current period
  random_lats,      \* the latitudes drawn in the current period
  df_again,         \* the cleaning steps applied to load_data's own result
  df_model_again,   \* the collapse applied to an already collapsed subset
  probe             \* a label put through a fitted encoder, and what came back

vars ==
  << archive, raw, df, pc, error, shown, df_model, label_encoders, scaler,
     le_target, rf, m, future_list, report, random_lons, random_lats,
     df_again, df_model_again, probe >>

\* ------------------------------------------------------------------ bounds

\* Most records (n = 1 rows) of a raw table whose cleaning is examined row by row.
MaxRows == 2

\* Most row groups of a raw table that is run through the whole pipeline.
MaxGroups == 2

\* ------------------------------------------------------------------ text

Whitespace == {" ", "\t"}

Digits == <<"0", "1", "2", "3", "4", "5", "6", "7", "8", "9">>

UpperLetters ==
  <<"A", "B", "C", "D", "E", "F", "G", "H", "I", "J", "K", "L", "M",
    "N", "O", "P", "Q", "R", "S", "T", "U", "V", "W", "X", "Y", "Z">>

LowerLetters ==
  <<"a", "b", "c", "d", "e", "f", "g", "h", "i", "j", "k", "l", "m",
    "n", "o", "p", "q", "r", "s", "t", "u", "v", "w", "x", "y", "z">>

Range(f) == {f[i] : i \in DOMAIN f}

IndexOf(seq, x) == CHOOSE i \in DOMAIN seq : seq[i] = x

SetMin(S) == CHOOSE x \in S : \A y \in S : x <= y

SetMax(S) == CHOOSE x \in S : \A y \in S : y <= x

\* Python's ord() on the characters the model uses.
Ord(c) ==
  CASE c = "\t" -> 9
    [] c = " " -> 32
    [] c \in Range(Digits) -> 47 + IndexOf(Digits, c)
    [] c \in Range(UpperLetters) -> 64 + IndexOf(UpperLetters, c)
    [] c = "_" -> 95
    [] c \in Range(LowerLetters) -> 96 + IndexOf(LowerLetters, c)

\* str.lower()
Lower(s) ==
  [i \in DOMAIN s |->
     IF s[i] \in Range(UpperLetters)
       THEN LowerLetters[IndexOf(UpperLetters, s[i])]
       ELSE s[i]]

\* A strip that removes one whitespace character at most from each end.
StripOnce(s) ==
  LET a == IF s # << >> /\ Head(s) \in Whitespace THEN Tail(s) ELSE s
  IN  IF a # << >> /\ a[Len(a)] \in Whitespace THEN SubSeq(a, 1, Len(a) - 1) ELSE a

\* str.strip(): leading and trailing whitespace removed.
Strip(s) ==
  LET keep == {i \in DOMAIN s : s[i] \notin Whitespace}
  IN  IF keep = {} THEN << >> ELSE SubSeq(s, SetMin(keep), SetMax(keep))

\* str.replace(old, new) for one-character old and new.
Replace(s, old, new) == [i \in DOMAIN s |-> IF s[i] = old THEN new ELSE s[i]]

\* Python's < on str: lexicographic by code point.
RECURSIVE StrLess(_, _)
StrLess(a, b) ==
  IF b = << >> THEN FALSE
  ELSE IF a = << >> THEN TRUE
  ELSE IF Head(a) # Head(b) THEN Ord(Head(a)) < Ord(Head(b))
  ELSE StrLess(Tail(a), Tail(b))

\* The value of a string of decimal digits.
RECURSIVE DigitsValue(_)
DigitsValue(s) ==
  IF s = << >> THEN 0
  ELSE 10 * DigitsValue(SubSeq(s, 1, Len(s) - 1)) + (IndexOf(Digits, s[Len(s)]) - 1)

\* str() of a non-negative integer.
RECURSIVE FormatInt(_)
FormatInt(k) ==
  IF k < 10 THEN << Digits[k + 1] >>
  ELSE Append(FormatInt(k \div 10), Digits[(k % 10) + 1])

\* ------------------------------------------------------------------ cells

NaN == [t |-> "nan", s |-> << >>, v |-> 0]

Str(s) == [t |-> "str", s |-> s, v |-> 0]

Num(k) == [t |-> "num", s |-> << >>, v |-> k]

\* pd.isna
IsNa(c) == c.t = "nan"

\* pd.to_numeric(..., errors='coerce') on one cell: a number stays, text that is
\* a decimal number (surrounding whitespace allowed) is parsed, anything else
\* becomes NaN.  The coordinates of the model are non-negative integers.
to_numeric(c) ==
  IF c.t = "str"
    THEN LET body == Strip(c.s)
         IN  IF body # << >> /\ \A i \in DOMAIN body : body[i] \in Range(Digits)
               THEN Num(DigitsValue(body))
               ELSE NaN
    ELSE c

\* .astype(str) on one cell: NaN becomes the text 'nan'.
astype_str(c) ==
  CASE c.t = "str" -> c
    [] c.t = "nan" -> Str(<<"n", "a", "n">>)
    [] c.t = "num" -> Str(FormatInt(c.v))

\* .str.strip() on one cell.
str_strip(c) == IF c.t = "str" THEN Str(Strip(c.s)) ELSE c

\* ------------------------------------------------------------------ names

crime_id ==
  <<"c", "r", "i", "m", "e", "_", "i", "d">>
reported_by ==
  <<"r", "e", "p", "o", "r", "t", "e", "d", "_", "b", "y">>
falls_within ==
  <<"f", "a", "l", "l", "s", "_", "w", "i", "t", "h", "i", "n">>
longitude ==
  <<"l", "o", "n", "g", "i", "t", "u", "d", "e">>
latitude ==
  <<"l", "a", "t", "i", "t", "u", "d", "e">>
location ==
  <<"l", "o", "c", "a", "t", "i", "o", "n">>
lsoa_code ==
  <<"l", "s", "o", "a", "_", "c", "o", "d", "e">>
lsoa_name ==
  <<"l", "s", "o", "a", "_", "n", "a", "m", "e">>
crime_type ==
  <<"c", "r", "i", "m", "e", "_", "t", "y", "p", "e">>
last_outcome_category ==
  <<"l", "a", "s", "t", "_", "o", "u", "t", "c", "o", "m", "e", "_",
    "c", "a", "t", "e", "g", "o", "r", "y">>

Other == <<"O", "t", "h", "e", "r">>

\* ------------------------------------------------------------------ DataFrame

NoFrame == [columns |-> << >>, rows |-> << >>]

\* The positions of the columns called name.
Positions(frame, name) == {i \in DOMAIN frame.columns : frame.columns[i] = name}

\* frame[name] is a Series: exactly one column has that name.  With none the
\* lookup raises KeyError; with several it yields a DataFrame, on which
\* pd.to_numeric, .str and the encoders raise.
HasColumn(frame, name) == Cardinality(Positions(frame, name)) = 1

ColumnOf(frame, name) == CHOOSE i \in Positions(frame, name) : TRUE

\* frame[name] of one row group.
Cell(frame, row, name) == row.cells[ColumnOf(frame, name)]

\* The subsequence of seq at the positions in keep, in order, from position i on.
RECURSIVE SelectFrom(_, _, _)
SelectFrom(seq, keep, i) ==
  IF i > Len(seq) THEN << >>
  ELSE IF i \in keep THEN << seq[i] >> \o SelectFrom(seq, keep, i + 1)
  ELSE SelectFrom(seq, keep, i + 1)

\* frame.dropna(subset=names): the rows with no missing cell in those columns.
dropna(frame, names) ==
  LET complete ==
        {i \in DOMAIN frame.rows :
           \A k \in DOMAIN names : ~IsNa(Cell(frame, frame.rows[i], names[k]))}
  IN  [frame EXCEPT !.rows = SelectFrom(frame.rows, complete, 1)]

\* drop_duplicates with keep='last'.
drop_duplicates_last(frame, name) ==
  LET last ==
        {i \in DOMAIN frame.rows :
           \A j \in (i + 1)..Len(frame.rows) :
              Cell(frame, frame.rows[j], name) # Cell(frame, frame.rows[i], name)}
  IN  [frame EXCEPT !.rows = SelectFrom(frame.rows, last, 1)]

\* frame.drop_duplicates(subset=[name]): keep='first', so a row stays exactly
\* when no earlier row has the same value in that column.
drop_duplicates(frame, name) ==
  LET first ==
        {i \in DOMAIN frame.rows :
           \A j \in 1..(i - 1) :
              Cell(frame, frame.rows[j], name) # Cell(frame, frame.rows[i], name)}
  IN  [frame EXCEPT !.rows = SelectFrom(frame.rows, first, 1)]

\* Number of records of a frame.
RECURSIVE RecordCount(_)
RecordCount(rows) ==
  IF rows = << >> THEN 0 ELSE Head(rows).n + RecordCount(Tail(rows))

\* ------------------------------------------------------------------ load_data

\* df.columns.str.strip().str.lower().str.replace(' ', '_')
NormalizeName(name) == Replace(Lower(Strip(name)), " ", "_")

RenameColumns(frame) ==
  [frame EXCEPT !.columns = [i \in DOMAIN frame.columns |-> NormalizeName(frame.columns[i])]]

\* The columns the cleaning steps index, in the order the steps reach them.
CleaningColumns == << longitude, latitude, location, crime_id, crime_type >>

\* A cleaning step raises (KeyError and the like) unless each column it
\* indexes exists once under its normalized name.
CleaningRaises(frame) ==
  \E k \in DOMAIN CleaningColumns : ~HasColumn(RenameColumns(frame), CleaningColumns[k])

\* df[name] = pd.to_numeric(df[name], errors='coerce')
CoerceNumeric(frame, name) ==
  LET j == ColumnOf(frame, name)
  IN  [frame EXCEPT !.rows =
         [i \in DOMAIN frame.rows |->
            [frame.rows[i] EXCEPT !.cells[j] = to_numeric(frame.rows[i].cells[j])]]]

\* df['location'] = df['location'].astype(str).str.strip()
TrimLocation(frame) ==
  LET j == ColumnOf(frame, location)
  IN  [frame EXCEPT !.rows =
         [i \in DOMAIN frame.rows |->
            [frame.rows[i] EXCEPT
               !.cells[j] = str_strip(astype_str(frame.rows[i].cells[j]))]]]

\* The cleaning steps of load_data on a frame all of whose columns exist.
Cleaning(frame) ==
  LET d1 == RenameColumns(frame)
      d2 == CoerceNumeric(d1, longitude)
      d3 == CoerceNumeric(d2, latitude)
      d4 == TrimLocation(d3)
      d5 == dropna(d4, << crime_id, crime_type, latitude, longitude >>)
  IN  drop_duplicates(d5, crime_id)

\* ------------------------------------------------------------------ train_model

\* value_counts() < 1000 (line 45)
RareThreshold == 1000

\* The distinct values of a column.
Values(frame, name) == {Cell(frame, frame.rows[i], name) : i \in DOMAIN frame.rows}

\* How many records of rows have value val at column position j.
RECURSIVE CountAt(_, _, _)
CountAt(rows, j, val) ==
  IF rows = << >> THEN 0
  ELSE (IF Head(rows).cells[j] = val THEN Head(rows).n ELSE 0) + CountAt(Tail(rows), j, val)

\* frame[name].value_counts()[val]
value_count(frame, name, val) == CountAt(frame.rows, ColumnOf(frame, name), val)

\* The categories with value_counts() <= 1000.
RareUpTo(frame) ==
  {c \in Values(frame, crime_type) :
     ~IsNa(c) /\ value_count(frame, crime_type, c) <= RareThreshold}

\* rare: the index of the value counts that are below 1000.
Rare(frame) ==
  {c \in Values(frame, crime_type) :
     ~IsNa(c) /\ value_count(frame, crime_type, c) < RareThreshold}

\* Every category but the most frequent one is merged.
CollapseButTop(frame) ==
  LET j == ColumnOf(frame, crime_type)
      top == CHOOSE c \in Values(frame, crime_type) :
               \A d \in Values(frame, crime_type) :
                  value_count(frame, crime_type, d) <= value_count(frame, crime_type, c)
  IN  [frame EXCEPT !.rows =
         [i \in DOMAIN frame.rows |->
            [frame.rows[i] EXCEPT !.cells[j] = IF @ = top THEN @ ELSE Str(Other)]]]

\* No category is merged.
CollapseNothing(frame) == frame

\* df_model['crime_type'].apply(lambda x: 'Other' if x in rare else x)
CollapseRare(frame) ==
  LET j == ColumnOf(frame, crime_type)
      rare == Rare(frame)
  IN  [frame EXCEPT !.rows =
         [i \in DOMAIN frame.rows |->
            [frame.rows[i] EXCEPT !.cells[j] = IF @ \in rare THEN Str(Other) ELSE @]]]

\* df.dropna(subset=['lsoa_code', 'lsoa_name'])
TrainingSubset(frame) == dropna(frame, << lsoa_code, lsoa_name >>)

features == << longitude, latitude, reported_by, falls_within, last_outcome_category >>

CategoricalFeatures == {reported_by, falls_within, last_outcome_category}

\* The order np.unique / sorted() puts labels in; missing values come last.
LabelLess(a, b) ==
  IF IsNa(b) THEN ~IsNa(a)
  ELSE IF IsNa(a) THEN FALSE
  ELSE StrLess(a.s, b.s)

\* LabelEncoder.fit: classes_ is the sorted sequence of the distinct labels.
LabelFit(labels) ==
  [k \in 1..Cardinality(labels) |->
     CHOOSE x \in labels : Cardinality({y \in labels : LabelLess(y, x)}) = k - 1]

\* A transform that gives a label it has not seen the code 0.
LabelTransformLenient(classes, label) ==
  IF \E k \in DOMAIN classes : classes[k] = label
    THEN [ok |-> TRUE, code |-> IndexOf(classes, label) - 1]
    ELSE [ok |-> TRUE, code |-> 0]

\* LabelEncoder.transform on one label: its position in classes_, or
\* ValueError ("y contains previously unseen labels").
LabelTransform(classes, label) ==
  IF \E k \in DOMAIN classes : classes[k] = label
    THEN [ok |-> TRUE, code |-> IndexOf(classes, label) - 1]
    ELSE [ok |-> FALSE, code |-> -1]

\* LabelEncoder.inverse_transform on one code.
LabelInverse(classes, code) == classes[code + 1]

\* Sum of f over the records of rows, f read at column position j.
RECURSIVE SumAt(_, _)
SumAt(rows, j) ==
  IF rows = << >> THEN 0 ELSE Head(rows).n * Head(rows).cells[j].v + SumAt(Tail(rows), j)

RECURSIVE SumSqAt(_, _)
SumSqAt(rows, j) ==
  IF rows = << >> THEN 0
  ELSE Head(rows).n * Head(rows).cells[j].v * Head(rows).cells[j].v + SumSqAt(Tail(rows), j)

\* StandardScaler.fit on [longitude, latitude].  mean_ is sum / n_samples_seen
\* and var_ is sumsq / n_samples_seen - mean_ ^ 2, kept as exact integers.
ScalerFit(frame) ==
  LET jlon == ColumnOf(frame, longitude)
      jlat == ColumnOf(frame, latitude)
  IN  [n_samples_seen |-> RecordCount(frame.rows),
       sum |-> << SumAt(frame.rows, jlon), SumAt(frame.rows, jlat) >>,
       sumsq |-> << SumSqAt(frame.rows, jlon), SumSqAt(frame.rows, jlat) >>]

\* StandardScaler.transform of value x of feature j: (x - mean_) / scale_, as
\* the exact pair: numerator n * x - sum, and n ^ 2 * var_.  The value is
\* num / sqrt(nnvar), and num / n where var_ is 0 (scale_ is then 1).
ScalerTransform(sc, j, x) ==
  [num |-> sc.n_samples_seen * x - sc.sum[j],
   nnvar |-> sc.n_samples_seen * sc.sumsq[j] - sc.sum[j] * sc.sum[j]]

\* Series.mode(): the most frequent values, missing values not counted.
Modes(frame, name) ==
  {c \in Values(frame, name) :
     /\ ~IsNa(c)
     /\ \A d \in Values(frame, name) :
           IsNa(d) \/ value_count(frame, name, d) <= value_count(frame, name, c)}

\* .mode()[0]: the modes are sorted, so [0] is the least of them.
ModeZero(frame, name) ==
  CHOOSE c \in Modes(frame, name) : \A d \in Modes(frame, name) : d = c \/ LabelLess(c, d)

\* A column mixes text and missing values (object dtype with NaN).
MixedWithNaN(frame, name) ==
  /\ \E c \in Values(frame, name) : IsNa(c)
  /\ \E c \in Values(frame, name) : ~IsNa(c)

\* ------------------------------------------------------------------ main: the period loop

\* np.random.uniform(low, high, 5000) (line 180)
NSamples == 5000

\* range(1, 7) (line 179)
FirstMonth == 1
StopMonth == 7

\* range(0, 6)
MonthsFromZero == [k \in 1..(StopMonth - FirstMonth) |-> k - 1]

\* list(range(1, 7))
Months == [k \in 1..(StopMonth - FirstMonth) |-> FirstMonth + k - 1]

\* Values a little outside [low, high].
UniformWide(low, high) == (low - 1)..(high + 1)

\* The values one draw of np.random.uniform(low, high) can return: low <= x < high,
\* and high itself by rounding (and when low = high).
Uniform(low, high) == low..high

column_min(frame, name) == SetMin({c.v : c \in Values(frame, name)})

column_max(frame, name) == SetMax({c.v : c \in Values(frame, name)})

\* ------------------------------------------------------------------ inputs

\* The header of the police CSV, in the order of its columns.
CsvHeader ==
  << <<"C", "r", "i", "m", "e", " ", "I", "D">>,
     <<"R", "e", "p", "o", "r", "t", "e", "d", " ", "b", "y">>,
     <<"F", "a", "l", "l", "s", " ", "w", "i", "t", "h", "i", "n">>,
     <<"L", "o", "n", "g", "i", "t", "u", "d", "e">>,
     <<"L", "a", "t", "i", "t", "u", "d", "e">>,
     <<"L", "o", "c", "a", "t", "i", "o", "n">>,
     <<"L", "S", "O", "A", " ", "c", "o", "d", "e">>,
     <<"L", "S", "O", "A", " ", "n", "a", "m", "e">>,
     <<"C", "r", "i", "m", "e", " ", "t", "y", "p", "e">>,
     <<"L", "a", "s", "t", " ", "o", "u", "t", "c", "o", "m", "e", " ",
       "c", "a", "t", "e", "g", "o", "r", "y">> >>

\* Headers that differ from CsvHeader in one name: stray whitespace and case,
\* a tab instead of the space, and names that normalize to another column name.
HeaderVariants ==
  { [CsvHeader EXCEPT ![1] = <<" ", "C", "R", "I", "M", "E", " ", "i", "d", "\t">>],
    [CsvHeader EXCEPT ![1] = <<"C", "r", "i", "m", "e", "\t", "I", "D">>],
    [CsvHeader EXCEPT ![4] = <<"L", "n", "g">>],
    [CsvHeader EXCEPT ![6] = <<"P", "l", "a", "c", "e">>],
    [CsvHeader EXCEPT ![8] = <<"L", "S", "O", "A">>],
    [CsvHeader EXCEPT ![10] = <<"O", "u", "t", "c", "o", "m", "e">>],
    [CsvHeader EXCEPT ![3] = <<"F", "o", "r", "c", "e">>],
    [CsvHeader EXCEPT ![2] = <<"F", "o", "r", "c", "e">>],
    [CsvHeader EXCEPT ![7] = <<"L", "S", "O", "A">>] }

Burglary == <<"B", "u", "r", "g", "l", "a", "r", "y">>
Theft == <<"T", "h", "e", "f", "t">>
Vandalism == <<"V", "a", "n", "d", "a", "l", "i", "s", "m">>

ForceA == <<"H", "u", "m", "b", "e", "r", "s", "i", "d", "e">>
ForceB == <<"B", "T", "P">>

\* One row group under CsvHeader.
RawRow(id, rb, lon, lat, loc, lsoa, ct, n) ==
  [cells |->
     << id, rb, Str(ForceA), lon, lat, loc, lsoa, lsoa, ct,
        Str(<<"U", "n", "d", "e", "r", " ", "i", "n", "v">>) >>,
   n |-> n]

\* All sequences over S of length at most k.
RECURSIVE SeqsUpTo(_, _)
SeqsUpTo(S, k) ==
  IF k = 0 THEN {<< >>}
  ELSE LET shorter == SeqsUpTo(S, k - 1)
       IN  shorter \cup {Append(q, x) : q \in {r \in shorter : Len(r) = k - 1}, x \in S}

\* Single records for the row-by-row examination of the cleaning: identifiers
\* that repeat or are missing, coordinates as text with and without
\* surrounding whitespace or unparseable, locations to trim or missing, and a
\* record without category.
CleanRows ==
  { RawRow(id, Str(ForceA), Num(0), lat, Str(<<" ", "\t", "O", "n", " ", "A", " ">>),
           Str(<<"E", "1">>), Str(Theft), 1) :
      id \in {Str(<<"a">>), Str(<<"b">>), NaN},
      lat \in {Str(<<"5", "3">>), Str(<<" ", "5", "4">>), Str(<<"x">>)} }
  \cup
  { RawRow(Str(<<"a">>), Str(ForceA), Num(0), Str(<<"5", "3">>), NaN,
           Str(<<"E", "1">>), Str(Theft), 1),
    RawRow(Str(<<"a">>), Str(ForceA), Str(<<"-">>), Num(53), Str(<<"A">>),
           Str(<<"E", "1">>), Str(Theft), 1),
    RawRow(Str(<<"b">>), Str(ForceA), Num(0), Num(53), Str(<<"A">>),
           Str(<<"E", "1">>), NaN, 1) }

\* The table that accompanies the header variants.
SampleRows ==
  << RawRow(Str(<<"a">>), Str(ForceA), Num(0), Num(2), Str(<<"A">>),
            Str(<<"E", "1">>), Str(Burglary), 1500),
     RawRow(Str(<<"b">>), Str(ForceB), Num(1), Num(2), Str(<<"A">>),
            Str(<<"E", "1">>), Str(Theft), 1200) >>

\* ------------------------------------------------------------------ state

NoScaler == [n_samples_seen |-> 0, sum |-> << 0, 0 >>, sumsq |-> << 0, 0 >>]

NoForest == [classes |-> {}, predict |-> << >>, fallback |-> -1]

NoProbe == [feature |-> << >>, label |-> NaN, result |-> [ok |-> FALSE, code |-> -1]]

NoReport ==
  [fut_df |-> << >>, totals |-> << >>, pivot |-> << >>, future_tot |-> << >>,
   num_hist |-> << 0, 1 >>]

\* The state of a run that has not started, on the given input.
Start(a, table) ==
  /\ archive = a
  /\ raw = table
  /\ df = NoFrame
  /\ pc = "load_data"
  /\ error = ""
  /\ shown = {}
  /\ df_model = NoFrame
  /\ label_encoders = [c \in CategoricalFeatures |-> << >>]
  /\ scaler = NoScaler
  /\ le_target = << >>
  /\ rf = NoForest
  /\ m = 0
  /\ future_list = << >>
  /\ report = NoReport
  /\ random_lons = << >>
  /\ random_lats = << >>
  /\ df_again = NoFrame
  /\ df_model_again = NoFrame
  /\ probe = NoProbe

\* The run ends early: st.stop() after st.error, or an uncaught exception.
Abort(why) ==
  /\ pc' = "aborted"
  /\ error' = why

\* load_data, called first by main.
LoadData ==
  /\ pc = "load_data"
  /\ \/ /\ archive = "missing"
        /\ Abort("st.stop: data archive not found")
        /\ UNCHANGED df
     \/ /\ archive = "no_csv"
        /\ Abort("st.stop: no CSV file in the archive")
        /\ UNCHANGED df
     \/ /\ archive = "ok"
        /\ CleaningRaises(raw)
        /\ Abort("KeyError in load_data")
        /\ UNCHANGED df
     \/ /\ archive = "ok"
        /\ ~CleaningRaises(raw)
        /\ df' = Cleaning(raw)
        /\ pc' = "tab1"
        /\ UNCHANGED error
  /\ UNCHANGED << archive, raw, shown, df_model, label_encoders, scaler, le_target,
                  rf, m, future_list, report, random_lons, random_lats,
                  df_again, df_model_again, probe >>

\* The cleaning steps of load_data run once more, on the collection it returned.
CleanAgain ==
  /\ pc = "tab1"
  /\ ~CleaningRaises(df)
  /\ df_again' = Cleaning(df)
  /\ pc' = "cleaned_again"
  /\ UNCHANGED << archive, raw, df, error, shown, df_model, label_encoders, scaler,
                  le_target, rf, m, future_list, report, random_lons, random_lats,
                  df_model_again, probe >>

\* Inputs without a readable table, and tables whose header is off.
OddInputs ==
  \/ Start("missing", NoFrame)
  \/ Start("no_csv", NoFrame)
  \/ \E h \in HeaderVariants : Start("ok", [columns |-> h, rows |-> SampleRows])

InitClean ==
  \/ OddInputs
  \/ \E rs \in SeqsUpTo(CleanRows, MaxRows) : Start("ok", [columns |-> CsvHeader, rows |-> rs])

NextClean == LoadData \/ CleanAgain

\* load_data, and its cleaning steps applied to their own output.
SpecClean == InitClean /\ [][NextClean]_vars

\* ------------------------------------------------------------------ C1, C2

\* load_data has returned a collection.
Loaded == df.columns # << >>

\* The raw table under its normalized column names.
Named == RenameColumns(raw)

RawId(named, i) == Cell(named, raw.rows[i], crime_id)

\* Raw record i as it reads after coercion and trimming.
Image(named, i) ==
  [raw.rows[i] EXCEPT
     !.cells[ColumnOf(named, longitude)] = to_numeric(@),
     !.cells[ColumnOf(named, latitude)] = to_numeric(@),
     !.cells[ColumnOf(named, location)] = str_strip(astype_str(@))]

\* Raw record i has identifier, category and both coordinates after coercion.
Complete(named, i) ==
  /\ ~IsNa(RawId(named, i))
  /\ ~IsNa(Cell(named, raw.rows[i], crime_type))
  /\ ~IsNa(Cell(named, Image(named, i), latitude))
  /\ ~IsNa(Cell(named, Image(named, i), longitude))

UniqueIds ==
  \A i, j \in DOMAIN df.rows :
     i # j => Cell(df, df.rows[i], crime_id) # Cell(df, df.rows[j], crime_id)

\* The raw records that are complete and have no complete record with the
\* same identifier before them.
FirstComplete(named) ==
  {i \in DOMAIN raw.rows :
     /\ Complete(named, i)
     /\ \A j \in 1..(i - 1) : Complete(named, j) => RawId(named, j) # RawId(named, i)}

\* The k-th smallest member of a set of numbers.
Kth(S, k) == CHOOSE x \in S : Cardinality({y \in S : y < x}) = k - 1

\* C1 as stated: identifiers of the cleaned collection are unique, and each
\* cleaned record is the first raw record, in input order, that carries its
\* identifier.
C1_FirstRawOccurrenceKept ==
  Loaded =>
    LET named == Named
    IN  /\ UniqueIds
        /\ \A k \in DOMAIN df.rows :
              LET id == Cell(df, df.rows[k], crime_id)
                  first == SetMin({i \in DOMAIN raw.rows : RawId(named, i) = id})
              IN  df.rows[k] = Image(named, first)

\* C1 amended: identifiers of the cleaned collection are unique, and the
\* cleaned collection is, in input order, the first record of each identifier
\* among the raw records that survive the drop of incomplete records.
C1_FirstCompleteOccurrenceKept ==
  Loaded =>
    LET named == Named
        first == FirstComplete(named)
    IN  /\ UniqueIds
        /\ Len(df.rows) = Cardinality(first)
        /\ \A k \in DOMAIN df.rows : df.rows[k] = Image(named, Kth(first, k))

\* Two complete raw records share an identifier and differ otherwise; one of
\* them was removed.
C1_Witness ==
  /\ Loaded
  /\ Len(df.rows) < Len(raw.rows)
  /\ LET named == Named
     IN  \E i, j \in DOMAIN raw.rows :
            /\ i < j
            /\ Complete(named, i)
            /\ Complete(named, j)
            /\ RawId(named, i) = RawId(named, j)
            /\ Image(named, i) # Image(named, j)

\* C2: the cleaning steps applied to the cleaned collection return the same
\* collection: same column names, same rows, same order.
C2_CleaningIdempotent ==
  pc = "cleaned_again" => df_again = df

\* The first cleaning renamed columns, coerced text coordinates, trimmed a
\* location and dropped records, and left something to clean again.
C2_Witness ==
  /\ pc = "cleaned_again"
  /\ raw.columns # df.columns
  /\ 0 < Len(df.rows)
  /\ Len(df.rows) < Len(raw.rows)
  /\ LET named == Named
     IN  \E i \in DOMAIN raw.rows : Complete(named, i) /\ Image(named, i) # raw.rows[i]

\* ------------------------------------------------------------------ main

\* Tab 1 (lines 73-124).  st.write(df.head()) comes first; the heatmap indexes
\* last_outcome_category.  Plotting calls are taken not to raise.
Tab1 ==
  /\ pc = "tab1"
  /\ IF HasColumn(df, last_outcome_category)
       THEN /\ shown' = shown \cup {"data_overview", "heatmap", "map"}
            /\ pc' = "tab2"
            /\ UNCHANGED error
       ELSE /\ shown' = shown \cup {"data_overview"}
            /\ Abort("KeyError in tab1")
  /\ UNCHANGED << archive, raw, df, df_model, label_encoders, scaler, le_target, rf, m,
                  future_list, report, random_lons, random_lats, df_again,
                  df_model_again, probe >>

\* Tab 2 (lines 127-165): the count plots index falls_within, crime_type and
\* last_outcome_category, the LSOA plot indexes lsoa_name.
Tab2 ==
  /\ pc = "tab2"
  /\ IF ~HasColumn(df, falls_within)
       THEN /\ Abort("KeyError in tab2")
            /\ UNCHANGED shown
       ELSE IF ~HasColumn(df, lsoa_name)
       THEN /\ shown' = shown \cup {"count_plots"}
            /\ Abort("KeyError in tab2")
       ELSE /\ shown' = shown \cup {"count_plots", "lsoa_plot"}
            /\ pc' = "tab3"
            /\ UNCHANGED error
  /\ UNCHANGED << archive, raw, df, df_model, label_encoders, scaler, le_target, rf, m,
                  future_list, report, random_lons, random_lats, df_again,
                  df_model_again, probe >>

\* The closed bounding box of the training coordinates (lines 176-177).
lon_min == column_min(df_model, longitude)
lon_max == column_max(df_model, longitude)
lat_min == column_min(df_model, latitude)
lat_max == column_max(df_model, latitude)

\* One row of the encoded frame the classifier is asked about.
FeatureVector(sc, codes, lon, lat) ==
  << ScalerTransform(sc, 1, lon), ScalerTransform(sc, 2, lat),
     codes[reported_by], codes[falls_within], codes[last_outcome_category] >>

\* The code of each categorical feature's mode under the given encoders.
ModeCodes(frame, encoders) ==
  [c \in CategoricalFeatures |->
     IF Modes(frame, c) = {} THEN [ok |-> FALSE, code |-> -1]
     ELSE LabelTransform(encoders[c], ModeZero(frame, c))]

\* RandomForestClassifier.predict on one row.  The forest is tabulated on the
\* rows of the training bounding box under the modal context; any other row
\* gets the fallback class.
Predict(forest, row) ==
  IF row \in DOMAIN forest.predict THEN forest.predict[row] ELSE forest.fallback

\* A scaler that is fitted again to every batch it transforms.
ScalerRefit(sc, lons, lats) ==
  [n_samples_seen |-> lons[1].n + lons[2].n,
   sum |-> << lons[1].n * lons[1].v + lons[2].n * lons[2].v,
              lats[1].n * lats[1].v + lats[2].n * lats[2].v >>,
   sumsq |-> << lons[1].n * lons[1].v * lons[1].v + lons[2].n * lons[2].v * lons[2].v,
                lats[1].n * lats[1].v * lats[1].v + lats[2].n * lats[2].v * lats[2].v >>]

\* The scaler after scaler.transform(batch): transform does not fit.
ScalerAfterTransform(sc, lons, lats) == sc

\* train_model (lines 43-63), called at line 174.
TrainModel ==
  /\ pc = "tab3"
  /\ \/ /\ \E c \in {lsoa_code, lsoa_name} : ~HasColumn(df, c)
        /\ Abort("KeyError in train_model: dropna")
        /\ UNCHANGED << df_model, label_encoders, scaler, le_target, rf >>
     \/ /\ \A c \in {lsoa_code, lsoa_name} : HasColumn(df, c)
        /\ \E c \in CategoricalFeatures : ~HasColumn(df, c)
        /\ Abort("KeyError in train_model: features")
        /\ UNCHANGED << df_model, label_encoders, scaler, le_target, rf >>
     \/ /\ \A c \in {lsoa_code, lsoa_name} \cup CategoricalFeatures : HasColumn(df, c)
        /\ \E c \in CategoricalFeatures : MixedWithNaN(TrainingSubset(df), c)
        /\ Abort("TypeError in train_model: LabelEncoder before scikit-learn 0.24")
        /\ UNCHANGED << df_model, label_encoders, scaler, le_target, rf >>
     \/ /\ \A c \in {lsoa_code, lsoa_name} \cup CategoricalFeatures : HasColumn(df, c)
        /\ TrainingSubset(df).rows = << >>
        /\ Abort("ValueError in train_model: StandardScaler on 0 samples")
        /\ UNCHANGED << df_model, label_encoders, scaler, le_target, rf >>
     \/ /\ \A c \in {lsoa_code, lsoa_name} \cup CategoricalFeatures : HasColumn(df, c)
        /\ TrainingSubset(df).rows # << >>
        /\ LET model == CollapseRare(TrainingSubset(df))
               encoders == [c \in CategoricalFeatures |-> LabelFit(Values(model, c))]
               sc == ScalerFit(model)
               target == LabelFit(Values(model, crime_type))
               y_enc == {LabelTransform(target, y).code : y \in Values(model, crime_type)}
               codes == ModeCodes(model, encoders)
               box == IF \A c \in CategoricalFeatures : codes[c].ok
                        THEN { FeatureVector(sc, [c \in CategoricalFeatures |-> codes[c].code],
                                             lon, lat) :
                                 lon \in column_min(model, longitude)..column_max(model, longitude),
                                 lat \in column_min(model, latitude)..column_max(model, latitude) }
                        ELSE {}
           IN  /\ df_model' = model
               /\ label_encoders' = encoders
               /\ scaler' = sc
               /\ le_target' = target
               /\ \E table \in [box -> y_enc] :
                     rf' = [classes |-> y_enc, predict |-> table, fallback |-> SetMin(y_enc)]
        /\ pc' = "loop"
        /\ UNCHANGED error
  /\ UNCHANGED << archive, raw, df, shown, m, future_list, report, random_lons,
                  random_lats, df_again, df_model_again, probe >>

\* One iteration of the period loop (lines 179-193).  Of the 5000 records of a
\* draw the model lets one fall anywhere in the box and puts the other 4999 on
\* the upper corner.
PeriodStep ==
  /\ pc = "loop"
  /\ Len(future_list) < Len(Months)
  /\ m' = Months[Len(future_list) + 1]
  /\ \E lon \in Uniform(lon_min, lon_max), lat \in Uniform(lat_min, lat_max) :
        /\ random_lons' = << [v |-> lon, n |-> 1], [v |-> lon_max, n |-> NSamples - 1] >>
        /\ random_lats' = << [v |-> lat, n |-> 1], [v |-> lat_max, n |-> NSamples - 1] >>
  /\ LET codes == ModeCodes(df_model, label_encoders)
     IN  IF \E c \in CategoricalFeatures : ~codes[c].ok
           THEN /\ Abort(IF \E c \in CategoricalFeatures : Modes(df_model, c) = {}
                           THEN "KeyError in the period loop: mode()[0] of an empty Series"
                           ELSE "ValueError in the period loop: unseen labels")
                /\ UNCHANGED << future_list, scaler >>
           ELSE LET df_f ==
                      [g \in 1..2 |->
                         LET row == FeatureVector(scaler,
                                                  [c \in CategoricalFeatures |-> codes[c].code],
                                                  random_lons'[g].v, random_lats'[g].v)
                         IN  [longitude |-> row[1],
                              latitude |-> row[2],
                              reported_by |-> row[3],
                              falls_within |-> row[4],
                              last_outcome_category |-> row[5],
                              simulated_month |-> m',
                              predicted_crime_type |-> LabelInverse(le_target, Predict(rf, row)),
                              n |-> random_lons'[g].n]]
                IN  /\ future_list' = Append(future_list, df_f)
                    /\ scaler' = ScalerAfterTransform(scaler, random_lons', random_lats')
                    /\ UNCHANGED << pc, error >>
  /\ UNCHANGED << archive, raw, df, shown, df_model, label_encoders, le_target, rf,
                  report, df_again, df_model_again, probe >>

\* pd.concat(frames, ignore_index=True)
RECURSIVE concat(_)
concat(frames) == IF frames = << >> THEN << >> ELSE Head(frames) \o concat(Tail(frames))

\* pd.concat(future_list, ignore_index=True) (line 194)
FutureFrame(frames) == concat(frames)

\* The number of records among groups that satisfy both conditions.
RECURSIVE SizeWhere(_, _, _)
SizeWhere(groups, months, categories) ==
  IF groups = << >> THEN 0
  ELSE (IF /\ Head(groups).simulated_month \in months
           /\ Head(groups).predicted_crime_type \in categories
          THEN Head(groups).n ELSE 0)
       + SizeWhere(Tail(groups), months, categories)

\* 36 months of history (line 227)
HistoryMonths == 36

\* Lines 194-237: fut_df, the count of each predicted category, the
\* month x category pivot, the count per month and the historical average
\* df_model.shape[0] / 36 (kept as the pair numerator, denominator).
Aggregate ==
  /\ pc = "loop"
  /\ Len(future_list) = Len(Months)
  /\ LET fut_df == FutureFrame(future_list)
         cats == {fut_df[i].predicted_crime_type : i \in DOMAIN fut_df}
         months == {fut_df[i].simulated_month : i \in DOMAIN fut_df}
     IN  report' =
           [fut_df |-> fut_df,
            totals |-> [c \in cats |-> SizeWhere(fut_df, months, {c})],
            pivot |-> [k \in months |-> [c \in cats |-> SizeWhere(fut_df, {k}, {c})]],
            future_tot |-> [k \in months |-> SizeWhere(fut_df, {k}, cats)],
            num_hist |-> << RecordCount(df_model.rows), HistoryMonths >>]
  /\ shown' = shown \cup {"predicted_counts", "pivot_plot", "future_vs_historical"}
  /\ pc' = "sidebar"
  /\ UNCHANGED << archive, raw, df, error, df_model, label_encoders, scaler, le_target,
                  rf, m, future_list, random_lons, random_lats, df_again,
                  df_model_again, probe >>

\* Lines 240-242: the CSV of df_model behind the download button.
Sidebar ==
  /\ pc = "sidebar"
  /\ shown' = shown \cup {"download"}
  /\ pc' = "done"
  /\ UNCHANGED << archive, raw, df, error, df_model, label_encoders, scaler, le_target,
                  rf, m, future_list, report, random_lons, random_lats, df_again,
                  df_model_again, probe >>

\* Row groups for runs of the whole pipeline: categories above, at and below
\* the threshold, a raw category already called Other (999 records, 1998 when
\* the group occurs twice), a group without reporting force, a group outside
\* the training subset, and a group the cleaning drops.
GroupRows ==
  { RawRow(NaN, Str(ForceA), Num(0), Str(<<" ", "2">>), Str(<<"A">>),
           Str(<<"E", "1">>), Str(Burglary), 1500),
    RawRow(NaN, Str(ForceB), Num(0), Num(3), Str(<<"A">>),
           Str(<<"E", "1">>), Str(Theft), 1000),
    RawRow(NaN, NaN, Num(0), Num(2), Str(<<"A">>),
           Str(<<"E", "1">>), Str(Vandalism), 400),
    RawRow(NaN, Str(ForceA), Num(0), Num(2), Str(<<"A">>),
           Str(<<"E", "1">>), Str(Other), 999),
    RawRow(NaN, Str(ForceB), Num(0), Num(2), Str(<<"A">>),
           NaN, Str(Theft), 1200),
    RawRow(NaN, Str(ForceA), Num(0), Str(<<"x">>), Str(<<"A">>),
           Str(<<"E", "1">>), Str(Burglary), 1500) }

\* The spec's end-to-end scenario: Burglary 1500, Theft 1200, Vandalism 400.
Scenario ==
  << RawRow(NaN, Str(ForceA), Num(0), Num(2), Str(<<"A">>),
            Str(<<"E", "1">>), Str(Burglary), 1500),
     RawRow(NaN, Str(ForceA), Num(0), Num(3), Str(<<"A">>),
            Str(<<"E", "1">>), Str(Theft), 1200),
     RawRow(NaN, Str(ForceB), Num(0), Num(2), Str(<<"A">>),
            Str(<<"E", "1">>), Str(Vandalism), 400) >>

\* Row group i gets the identifier str(i): identifiers differ between groups.
Numbered(rows) ==
  [i \in DOMAIN rows |-> [rows[i] EXCEPT !.cells[1] = Str(FormatInt(i))]]

InitMain ==
  \/ OddInputs
  \/ \E rs \in SeqsUpTo(GroupRows, MaxGroups) :
        Start("ok", [columns |-> CsvHeader, rows |-> Numbered(rs)])
  \/ Start("ok", [columns |-> CsvHeader, rows |-> Numbered(Scenario)])

NextMain == LoadData \/ Tab1 \/ Tab2 \/ TrainModel \/ PeriodStep \/ Aggregate \/ Sidebar

\* One run of the script.
Spec == InitMain /\ [][NextMain]_vars

\* ------------------------------------------------------------------ the collapse, twice

\* Lines 44-46 on the cleaned collection.
Collapse ==
  /\ pc = "tab1"
  /\ \A c \in {lsoa_code, lsoa_name} : HasColumn(df, c)
  /\ df_model' = CollapseRare(TrainingSubset(df))
  /\ pc' = "collapsed"
  /\ UNCHANGED << archive, raw, df, error, shown, label_encoders, scaler, le_target, rf,
                  m, future_list, report, random_lons, random_lats, df_again,
                  df_model_again, probe >>

\* Lines 45-46 once more, on the collapsed subset.
CollapseAgain ==
  /\ pc = "collapsed"
  /\ df_model_again' = CollapseRare(df_model)
  /\ pc' = "collapsed_again"
  /\ UNCHANGED << archive, raw, df, error, shown, df_model, label_encoders, scaler,
                  le_target, rf, m, future_list, report, random_lons, random_lats,
                  df_again, probe >>

NextCollapse == LoadData \/ Collapse \/ CollapseAgain

\* load_data, the collapse of train_model, and the collapse applied again.
SpecCollapse == InitMain /\ [][NextCollapse]_vars

\* ------------------------------------------------------------------ the encoders, probed

\* label_encoders[feature].transform([label]) after training, for a label of
\* the cleaned collection or the text 'Other'.
TransformLabel ==
  /\ pc = "loop"
  /\ \E c \in CategoricalFeatures :
        \E label \in Values(df, c) \cup {Str(Other)} :
           probe' = [feature |-> c, label |-> label,
                     result |-> LabelTransform(label_encoders[c], label)]
  /\ UNCHANGED << archive, raw, df, pc, error, shown, df_model, label_encoders, scaler,
                  le_target, rf, m, future_list, report, random_lons, random_lats,
                  df_again, df_model_again >>

NextEncoder == LoadData \/ Tab1 \/ Tab2 \/ TrainModel \/ TransformLabel

\* The run up to the fitted encoders, and labels put through them.
SpecEncoder == InitMain /\ [][NextEncoder]_vars

\* ------------------------------------------------------------------ C3, C4

\* train_model has returned.
Trained == df_model.columns # << >>

\* The records of the cleaned collection that carry both statistical-area fields.
SubsetRows ==
  {i \in DOMAIN df.rows :
     /\ ~IsNa(Cell(df, df.rows[i], lsoa_code))
     /\ ~IsNa(Cell(df, df.rows[i], lsoa_name))}

RECURSIVE RecordsOf(_)
RecordsOf(S) ==
  IF S = {} THEN 0
  ELSE LET i == CHOOSE x \in S : TRUE IN df.rows[i].n + RecordsOf(S \ {i})

\* How often category c occurs in the training subset.
Frequency(c) == RecordsOf({i \in SubsetRows : Cell(df, df.rows[i], crime_type) = c})

\* The category a record of the training subset should carry after the collapse.
Collapsed(c) == IF Frequency(c) >= 1000 THEN c ELSE Str(Other)

RowOrders(k) == {p \in [1..k -> 1..k] : \A i, j \in 1..k : i # j => p[i] # p[j]}

\* C3: every record of the training subset keeps its category when the
\* category occurs at least 1000 times there and is relabeled Other otherwise;
\* no record is added or removed; permuting the rows permutes the result.
C3_CollapseCorrect ==
  Trained =>
    LET subset == SubsetRows
        orig == [k \in DOMAIN df_model.rows |-> df.rows[Kth(subset, k)]]
        category == ColumnOf(df, crime_type)
        expected == [c \in {orig[k].cells[category] : k \in DOMAIN orig} |-> Collapsed(c)]
    IN  /\ Len(df_model.rows) = Cardinality(subset)
        /\ \A k \in DOMAIN df_model.rows :
              df_model.rows[k] = [orig[k] EXCEPT !.cells[category] = expected[@]]
        /\ RecordCount(df_model.rows) = RecordsOf(subset)
        /\ \A p \in RowOrders(Len(df_model.rows)) :
              LET shuffled == [columns |-> df.columns,
                               rows |-> [k \in DOMAIN orig |-> orig[p[k]]]]
              IN  CollapseRare(shuffled).rows =
                    [k \in DOMAIN df_model.rows |-> df_model.rows[p[k]]]

\* One category was kept with exactly 1000 records and another was relabeled.
C3_Witness ==
  /\ Trained
  /\ \E i \in SubsetRows :
        /\ Frequency(Cell(df, df.rows[i], crime_type)) = 1000
        /\ Collapsed(Cell(df, df.rows[i], crime_type)) = Cell(df, df.rows[i], crime_type)
  /\ \E i \in SubsetRows :
        /\ Cell(df, df.rows[i], crime_type) # Str(Other)
        /\ Collapsed(Cell(df, df.rows[i], crime_type)) = Str(Other)

\* C4: collapsing a collapsed training subset changes no label.
C4_CollapseIdempotent ==
  pc = "collapsed_again" => df_model_again = df_model

\* The first collapse merged a category into an Other of fewer than 1000
\* records, next to a category that was kept.
C4_Witness ==
  /\ pc = "collapsed_again"
  /\ df_model # TrainingSubset(df)
  /\ value_count(df_model, crime_type, Str(Other)) \in 1..999
  /\ \E c \in Values(df_model, crime_type) : c # Str(Other)

\* ------------------------------------------------------------------ C5, C6, C7

\* C5: every longitude and latitude drawn for a period lies between the least
\* and the greatest longitude, respectively latitude, of the training subset.
C5_DrawsInsideBoundingBox ==
  LET lons == Values(df_model, longitude)
      lats == Values(df_model, latitude)
  IN  /\ \A g \in DOMAIN random_lons :
            /\ \E r \in lons : r.v <= random_lons[g].v
            /\ \E r \in lons : random_lons[g].v <= r.v
      /\ \A g \in DOMAIN random_lats :
            /\ \E r \in lats : r.v <= random_lats[g].v
            /\ \E r \in lats : random_lats[g].v <= r.v

\* In the sixth period a latitude was drawn below the greatest training
\* latitude, on the lower edge of the box.
C5_Witness ==
  /\ m = 6
  /\ Len(future_list) = 6
  /\ \E g \in DOMAIN random_lats :
        /\ \A r \in Values(df_model, latitude) : random_lats[g].v <= r.v
        /\ \E r \in Values(df_model, latitude) : random_lats[g].v < r.v

\* The number of records among groups whose month is in months.
RECURSIVE BatchSize(_, _)
BatchSize(groups, months) ==
  IF groups = << >> THEN 0
  ELSE (IF Head(groups).simulated_month \in months THEN Head(groups).n ELSE 0)
       + BatchSize(Tail(groups), months)

RECURSIVE SumOf(_, _)
SumOf(f, S) ==
  IF S = {} THEN 0 ELSE LET x == CHOOSE y \in S : TRUE IN f[x] + SumOf(f, S \ {x})

\* C6: after k iterations the batches are those of periods 1..k with 5000
\* records each; once the loop is over fut_df holds the periods 1..6 with 5000
\* records each, 30000 in all, and every row of the pivot sums to 5000.
C6_PeriodCoverage ==
  /\ Len(future_list) <= 6
  /\ \A k \in DOMAIN future_list :
        /\ \A g \in DOMAIN future_list[k] : future_list[k][g].simulated_month = k
        /\ BatchSize(future_list[k], {k}) = 5000
  /\ pc \in {"sidebar", "done"} =>
        /\ Len(future_list) = 6
        /\ {report.fut_df[i].simulated_month : i \in DOMAIN report.fut_df} = 1..6
        /\ \A k \in 1..6 : BatchSize(report.fut_df, {k}) = 5000
        /\ BatchSize(report.fut_df, 1..6) = 30000
        /\ DOMAIN report.pivot = 1..6
        /\ \A k \in 1..6 : SumOf(report.pivot[k], DOMAIN report.pivot[k]) = 5000

\* The loop is over, and some period's records are spread over two categories.
C6_Witness ==
  /\ pc = "done"
  /\ \E k \in DOMAIN report.pivot :
        Cardinality({c \in DOMAIN report.pivot[k] : report.pivot[k][c] > 0}) = 2

\* The categories that occur at least 1000 times in the training subset, and
\* Other when some category occurs less often.
Vocabulary ==
  {Collapsed(Cell(df, df.rows[i], crime_type)) : i \in SubsetRows}

\* C7: every predicted category of a batch, and of fut_df, is in the collapsed
\* vocabulary; a category that was collapsed is never predicted.
C7_PredictionsInVocabulary ==
  IF ~Trained THEN future_list = << >> /\ report.fut_df = << >>
  ELSE
    LET vocabulary == Vocabulary
        kept == {c \in vocabulary : c = Str(Other) \/ Frequency(c) >= 1000}
    IN  /\ Range(le_target) = vocabulary
        /\ \A k \in DOMAIN future_list :
              \A g \in DOMAIN future_list[k] :
                 /\ future_list[k][g].predicted_crime_type \in vocabulary
                 /\ future_list[k][g].predicted_crime_type \in kept
        /\ \A i \in DOMAIN report.fut_df :
              report.fut_df[i].predicted_crime_type \in vocabulary

\* Burglary and Theft were kept, Vandalism was collapsed, and a batch holds a
\* record predicted Other.
C7_Witness ==
  /\ Trained
  /\ Vocabulary = {Str(Burglary), Str(Theft), Str(Other)}
  /\ \E i \in SubsetRows : Cell(df, df.rows[i], crime_type) = Str(Vandalism)
  /\ \E k \in DOMAIN future_list :
        \E g \in DOMAIN future_list[k] :
           future_list[k][g].predicted_crime_type = Str(Other)

\* ------------------------------------------------------------------ C8

\* The inputs the specification calls fatal: no archive, no CSV in it, a column the
\* cleaning needs is absent, no record survives the cleaning, or the collapsed
\* training subset has fewer than two distinct categories.
FatalInput ==
  \/ archive = "missing"
  \/ archive = "no_csv"
  \/ /\ archive = "ok"
     /\ CleaningRaises(raw)
  \/ /\ archive = "ok"
     /\ ~CleaningRaises(raw)
     /\ Cleaning(raw).rows = << >>
  \/ /\ archive = "ok"
     /\ ~CleaningRaises(raw)
     /\ \A c \in {lsoa_code, lsoa_name} : HasColumn(Cleaning(raw), c)
     /\ Cardinality(Values(CollapseRare(TrainingSubset(Cleaning(raw))), crime_type)) < 2

\* C8 as stated: a run on a fatal input ends aborted, and has then shown
\* nothing and produced no training subset, batch or report.
C8_FatalInputAbortsWithNoOutput ==
  (FatalInput /\ pc \in {"aborted", "done"}) =>
    /\ pc = "aborted"
    /\ shown = {}
    /\ df_model = NoFrame
    /\ future_list = << >>
    /\ report = NoReport

\* ------------------------------------------------------------------ C9

\* C9: a label put through a fitted encoder comes back as its position in the
\* fitted classes when the encoder has seen it and as a failure otherwise;
\* and the mode of each categorical feature of the training subset, the label
\* the period loop passes, is among the fitted classes.
C9_TransformSeenOrFail ==
  /\ probe # NoProbe =>
        LET classes == label_encoders[probe.feature]
        IN  IF probe.label \in Range(classes)
              THEN /\ probe.result.ok
                   /\ LabelInverse(classes, probe.result.code) = probe.label
              ELSE ~probe.result.ok
  /\ Trained =>
        \A c \in CategoricalFeatures :
           \A label \in Modes(df_model, c) : label \in Range(label_encoders[c])

\* A label of the cleaned collection that the encoder never saw (its records
\* lack the statistical area) was rejected, and the encoder has classes.
C9_Witness ==
  /\ probe # NoProbe
  /\ probe.label # Str(Other)
  /\ probe.label \notin Range(label_encoders[probe.feature])
  /\ label_encoders[probe.feature] # << >>
  /\ ~probe.result.ok

\* ------------------------------------------------------------------ C10

\* C10: the encoders, the scaler, the target encoder and the classifier change
\* in one step only, the call of train_model; every later step leaves them as
\* fitted.
C10_FittedStateFrozen ==
  [][ << label_encoders, scaler, le_target, rf >>' # << label_encoders, scaler, le_target, rf >>
        => (pc = "tab3" /\ pc' = "loop") ]_vars

\* The run is over: six batches were scored by a classifier with two classes
\* or more, and the report was built.
C10_Witness ==
  /\ pc = "done"
  /\ Len(future_list) = 6
  /\ Cardinality(rf.classes) >= 2
  /\ scaler.n_samples_seen > 0
  /\ report # NoReport

====
